---- MODULE Spec2Model ----
(***************************************************************************)
(* Model of the trip planner's map/routing orchestration:                  *)
(*   mapControl.js  (initMap, clearMap, addMarkersToMap, highlightMarker)  *)
(*   main.js        (generatePlan and its two timers)                      *)
(*   itinerary.js   (displayItinerary)                                     *)
(* JavaScript runs every handler to completion on one thread.  The render  *)
(* of addMarkersToMap is split into its per-day loop iterations (pc, rDay) *)
(* so that the order of effects inside one call is visible; no other       *)
(* handler runs while pc = "render".                                       *)
(***************************************************************************)
EXTENDS Integers, Sequences, FiniteSets, TLC

\* ---------------------------------------------------------------- bounds
MaxDays == 2
MaxLocs == 2
MaxCycles == 2
MaxEvents == 2

\* ------------------------------------------------------ program constants
HighlightStride == 10
HighlightZoom == 14
InitZoom == 10

Colors == <<"red", "blue", "green", "orange", "violet">>

Cycles == 1..MaxCycles
DayIdx == 0..(MaxDays - 1)

\* An itinerary is the sequence of its days; a day is modelled by
\* day.locations.length (positions in the sequence are dayIndex + 1).
\* parseTravel returns min(dates.length, 3 or 5) days, dates.length >= 2, each
\* with as many locations as the city's catalog lists allow (none for a city
\* without an entry), or its fallback: one day with two locations.
Itineraries == {<<2>>} \cup UNION {[1..n -> 0..MaxLocs] : n \in 2..MaxDays}

\* The route summaries a routing service may answer with (metres, seconds).
Summaries ==
  { [totalDistance |-> 1250, totalTime |-> 90],
    [totalDistance |-> 7349, totalTime |-> 1830] }

\* What the input field may hold: nothing, white space only, or some text.
Inputs == {<<>>, <<" ">>, <<"x">>}

\* ------------------------------------------------------------ pure helpers
\* Math.round(n / d) for n >= 0, d > 0: halves round up.
Round_Down(n, d) == n \div d
Round(n, d) == (2 * n + d) \div (2 * d)

ZeroStat == [distance |-> 0, duration |-> 0]

\* The stat of a found route.  distance is kept in tenths of a kilometre:
\* Math.round(totalDistance / 100) / 10 km has exactly one decimal.
RouteStat(summary) ==
  [distance |-> Round(summary.totalDistance, 100),
   duration |-> Round(summary.totalTime, 60)]

\* A JavaScript sparse array is a function on the set of its defined
\* indices; its length is the highest defined index plus one.
JsLength(arr) ==
  IF DOMAIN arr = {} THEN 0
  ELSE (CHOOSE i \in DOMAIN arr : \A j \in DOMAIN arr : j <= i) + 1

\* arr[i] = v
JsSet(arr, i, v) == [j \in (DOMAIN arr) \cup {i} |-> IF j = i THEN v ELSE arr[j]]

NumDays(it) == Len(it)
NumLocs(it, dayIndex) == it[dayIndex + 1]

Marker(gen, dayIndex, locIndex) ==
  [kind |-> "marker", gen |-> gen, dayIndex |-> dayIndex, locIndex |-> locIndex]

NoMarker == [kind |-> "none", gen |-> 0, dayIndex |-> 0, locIndex |-> 0]

\* colors[dayIndex % colors.length]; waypoints = day.locations.map(...)
Router_NextColor(gen, dayIndex, n) ==
  [kind |-> "router", gen |-> gen, dayIndex |-> dayIndex,
   color |-> Colors[((dayIndex + 1) % Len(Colors)) + 1],
   waypoints |-> [i \in 1..n |-> i - 1]]
Router(gen, dayIndex, n) ==
  [kind |-> "router", gen |-> gen, dayIndex |-> dayIndex,
   color |-> Colors[(dayIndex % Len(Colors)) + 1],
   waypoints |-> [i \in 1..n |-> i - 1]]

DayMarkers(gen, dayIndex, n) == [i \in 1..n |-> Marker(gen, dayIndex, i - 1)]

NoRequest ==
  [state |-> "none", events |-> 0,
   summary |-> [totalDistance |-> 0, totalTime |-> 0]]

NewClosure ==
  [ran |-> "no", dayStats |-> <<>>, routingCount |-> 0, calls |-> 0,
   placed |-> 0, fitted |-> FALSE]

NullItinerary == [kind |-> "null", cycle |-> 0]
FallbackItinerary == [kind |-> "fallback", cycle |-> 0]
ParsedItinerary(c) == [kind |-> "parsed", cycle |-> c]

\* ------------------------------------------------------------------ state
VARIABLES
  leaflet,         \* typeof L !== "undefined"
  travelInput,     \* the value of the input field
  routing,         \* window.L.Routing is loaded
  map,             \* mapControl.js: map is set (TRUE) or undefined (FALSE)
  markers,         \* mapControl.js: markers
  routeLayers,     \* mapControl.js: routeLayers
  onMap,           \* the layers and controls currently added to the map
  view,            \* the map's viewport
  popup,           \* the marker whose popup is open, or NoMarker
  nCycles,         \* generatePlan calls that passed the blank-input check
  phase,           \* per cycle: "idle", "synth" (1500 ms timer), "map" (100 ms timer), "done"
  parsed,          \* per cycle: the itinerary parseTravel returned
  currentItinerary,
  currentDayStats, \* main.js: the cycle whose dayStats array it references (0: the initial [])
  displayed,       \* what displayItinerary rendered last
  shown,           \* the itineraries displayItinerary has been called with
  btnDisabled,
  loadingShown,
  pc,              \* "idle", "render" inside addMarkersToMap's loop, or
                   \* "alert" while the alert dialog blocks the page
  rGen,            \* the cycle of the newest addMarkersToMap call that got past its guard
  rDay,            \* the loop's next dayIndex
  bounds,          \* addMarkersToMap's local bounds
  closure,         \* per addMarkersToMap call: its dayStats, routingCount, ...
  requests,        \* per call and day: the route request of L.Routing.control
  pInput,          \* parseTravel: its argument
  pStage,          \* parseTravel: "idle", "called", "loop" or "returned"
  pDetected,       \* parseTravel: detectedCities
  pDates,          \* parseTravel: dates
  pItinerary,      \* parseTravel: itinerary, each day with locations.length
  pDay,            \* parseTravel: spots, foods and locations of the newest day
  pResult,         \* parseTravel: the value returned
  sample,          \* a route summary handed to the routesfound computation
  sampleStat       \* the stat computed from it, in a list, empty before

vars ==
  <<leaflet, routing, travelInput, map, markers, routeLayers, onMap, view, popup, nCycles,
    phase, parsed, currentItinerary, currentDayStats, displayed, shown,
    btnDisabled, loadingShown, pc, rGen, rDay, bounds, closure, requests,
    pInput, pStage, pDetected, pDates, pItinerary, pDay, pResult,
    sample, sampleStat>>

parseVars == <<pInput, pStage, pDetected, pDates, pItinerary, pDay, pResult>>
statVars == <<sample, sampleStat>>
pureVars == <<parseVars, statVars>>

mapVars == <<map, markers, routeLayers, onMap, view, popup>>
uiVars == <<btnDisabled, loadingShown>>
mainVars == <<currentItinerary, currentDayStats, displayed, shown>>
renderVars == <<pc, rGen, rDay, bounds>>
envVars == <<leaflet, routing, travelInput>>

NoView == [target |-> NoMarker, zoom |-> 0]
NoDisplay == [from |-> NullItinerary, stats |-> <<>>]

\* No parseTravel call and no route summary under way.
NoDay == [spots |-> <<>>, foods |-> <<>>, locations |-> <<>>]
NoResult == [cities |-> <<>>, primaryCity |-> "", itinerary |-> <<>>]
NoInput == [isString |-> TRUE, tokens |-> <<>>, other |-> ""]
NoSample == [totalDistance |-> 0, totalTime |-> 0]

ParseIdle ==
  /\ pInput = NoInput
  /\ pStage = "idle"
  /\ pDetected = <<>>
  /\ pDates = <<>>
  /\ pItinerary = <<>>
  /\ pDay = NoDay
  /\ pResult = NoResult

StatIdle ==
  /\ sample = NoSample
  /\ sampleStat = <<>>

\* The page after load: no map, nothing rendered, no timer armed.
PageIdle ==
  /\ travelInput = <<>>
  /\ map = FALSE
  /\ markers = <<>>
  /\ routeLayers = <<>>
  /\ onMap = {}
  /\ view = NoView
  /\ popup = NoMarker
  /\ nCycles = 0
  /\ phase = [c \in Cycles |-> "idle"]
  /\ parsed = [c \in Cycles |-> <<>>]
  /\ currentItinerary = NullItinerary
  /\ currentDayStats = 0
  /\ displayed = NoDisplay
  /\ shown = {}
  /\ btnDisabled = FALSE
  /\ loadingShown = FALSE
  /\ pc = "idle"
  /\ rGen = 0
  /\ rDay = 0
  /\ bounds = <<>>
  /\ closure = [c \in Cycles |-> NewClosure]
  /\ requests = [c \in Cycles |-> [d \in DayIdx |-> NoRequest]]

Init ==
  /\ leaflet \in BOOLEAN
  /\ routing \in BOOLEAN
  /\ (routing => leaflet)
  /\ PageIdle
  /\ ParseIdle
  /\ StatIdle


\* ------------------------------------------------- itinerary.js: display
\* displayItinerary(parsed, dayStats = []): per day, dayStats[dayIdx] || {0, 0}.
DisplayOf(which, it, dayStats) ==
  [from |-> which,
   stats |-> [i \in 0..(NumDays(it) - 1) |->
                IF i \in DOMAIN dayStats THEN dayStats[i] ELSE ZeroStat]]

\* main.js: the arrow function handed to addMarkersToMap by cycle c.
OnRouteStats(c, dayStats) ==
  /\ currentDayStats' = c
  /\ displayed' = DisplayOf(ParsedItinerary(c), parsed[c], dayStats)
  /\ shown' = shown \cup {ParsedItinerary(c)}

NoCallback == UNCHANGED <<currentDayStats, displayed, shown>>

\* --------------------------------------------- mapControl.js: the barrier
\* dayStats[dayIndex] = stat; routingCount++
Recorded(cl, dayIndex, stat) ==
  [cl EXCEPT !.dayStats = JsSet(@, dayIndex, stat), !.routingCount = @ + 1]

\* routingCount === itinerary.length && typeof onRouteStats === "function"
BarrierReached_OnePast(cl, it) == cl.routingCount = NumDays(it) + 1
BarrierReached(cl, it) == cl.routingCount = NumDays(it)

\* The closure after one outcome of day dayIndex was recorded.
Settled(c, dayIndex, stat) ==
  LET cl == Recorded(closure[c], dayIndex, stat)
  IN  IF BarrierReached(cl, parsed[c]) THEN [cl EXCEPT !.calls = @ + 1] ELSE cl

Settle_Newest(c, dayIndex, stat) ==
  LET cl == Settled(rGen, dayIndex, stat)
  IN  /\ closure' = [closure EXCEPT ![rGen] = cl]
      /\ IF cl.calls > closure[rGen].calls
           THEN OnRouteStats(rGen, cl.dayStats)
           ELSE NoCallback

\* dayStats and routingCount are locals of the addMarkersToMap call whose
\* handler runs.
Settle(c, dayIndex, stat) ==
  LET cl == Settled(c, dayIndex, stat)
  IN  /\ closure' = [closure EXCEPT ![c] = cl]
      /\ IF cl.calls > closure[c].calls
           THEN OnRouteStats(c, cl.dayStats)
           ELSE NoCallback

NeedsRoute_AtLeastOne(n) == leaflet /\ routing /\ n > 0

\* window.L && window.L.Routing && day.locations.length > 1
NeedsRoute(n) == leaflet /\ routing /\ n > 1

\* -------------------------------------------------- mapControl.js: the map
Range(seq) == {seq[i] : i \in DOMAIN seq}

InitView == [target |-> NoMarker, zoom |-> InitZoom]

\* initMap: without Leaflet nothing is created; L.map("map") either succeeds
\* or throws into the catch (it throws when the container already holds a map).
InitMapOutcomes ==
  IF ~leaflet \/ map
    THEN {[map |-> map, view |-> view]}
    ELSE {[map |-> TRUE, view |-> InitView], [map |-> FALSE, view |-> view]}

ClearedOnMap_MarkersOnly(mapNow) ==
  IF leaflet /\ mapNow THEN onMap \ Range(markers) ELSE onMap

\* clearMap: what is left on the map.  map.removeLayer(x) is the map
\* capability "remove a given marker/overlay": it takes x off the map.
ClearedOnMap(mapNow) ==
  IF leaflet /\ mapNow
    THEN onMap \ (Range(markers) \cup Range(routeLayers))
    ELSE onMap

FitNeeded_MoreThanTwo(b) == Len(b) > 2

\* bounds.length > 0
FitNeeded(b) == Len(b) > 0

\* map.fitBounds(bounds, {padding: [30, 30]}): the view shows all the markers
\* of render gen, at the zoom Leaflet computes (written 0).
FitView(gen) ==
  [target |-> [NoMarker EXCEPT !.kind = "bounds", !.gen = gen], zoom |-> 0]

\* -------------------------------------------------------- main.js actions
\* The visitor edits the input field.
TypeInput(text) ==
  /\ pc = "idle"
  /\ text # travelInput
  /\ travelInput' = text
  /\ UNCHANGED <<pureVars, leaflet, routing, mapVars, uiVars, mainVars,
                 renderVars, nCycles, phase, parsed, closure, requests>>

\* input.trim(): the text without its leading and trailing white space
RECURSIVE TrimStart(_)
TrimStart(text) ==
  IF Len(text) > 0 /\ text[1] = " " THEN TrimStart(Tail(text)) ELSE text
RECURSIVE TrimEnd(_)
TrimEnd(text) ==
  IF Len(text) > 0 /\ text[Len(text)] = " "
  THEN TrimEnd(SubSeq(text, 1, Len(text) - 1)) ELSE text
Trim(text) == TrimEnd(TrimStart(text))

\* !input.trim()
Blank_Untrimmed(text) == Len(text) = 0
Blank(text) == Len(Trim(text)) = 0

\* generatePlan up to its first await.  alert() blocks the page until the
\* visitor dismisses the dialog.
GeneratePlan ==
  /\ pc = "idle"
  /\ IF Blank(travelInput)
       THEN /\ pc' = "alert"
            /\ UNCHANGED <<pureVars, envVars, mapVars, uiVars, mainVars, rGen,
                           rDay, bounds, nCycles, phase, parsed, closure,
                           requests>>
       ELSE /\ nCycles < MaxCycles
            /\ nCycles' = nCycles + 1
            /\ phase' = [phase EXCEPT ![nCycles + 1] = "synth"]
            /\ btnDisabled' = TRUE
            /\ loadingShown' = TRUE
            /\ UNCHANGED <<pureVars, envVars, mapVars, parsed, mainVars, renderVars,
                           closure, requests>>

DismissAlert ==
  /\ pc = "alert"
  /\ pc' = "idle"
  /\ UNCHANGED <<pureVars, envVars, mapVars, uiVars, mainVars, rGen, rDay,
                 bounds, nCycles, phase, parsed, closure, requests>>

\* The 1500 ms timer: parseTravel, then resolve/reject and the finally block.
SynthTimer(c) ==
  /\ pc = "idle"
  /\ phase[c] = "synth"
  /\ \A b \in Cycles : b < c => phase[b] # "synth"
  /\ \E p \in Itineraries :
       IF NumDays(p) = 0
         THEN /\ displayed' = DisplayOf(FallbackItinerary, <<2>>, <<>>)
              /\ shown' = shown \cup {FallbackItinerary}
              /\ currentItinerary' = FallbackItinerary
              /\ phase' = [phase EXCEPT ![c] = "done"]
              /\ UNCHANGED <<parsed, currentDayStats>>
         ELSE /\ parsed' = [parsed EXCEPT ![c] = p]
              /\ currentItinerary' = ParsedItinerary(c)
              /\ phase' = [phase EXCEPT ![c] = "map"]
              /\ UNCHANGED <<displayed, shown, currentDayStats>>
  /\ btnDisabled' = FALSE
  /\ loadingShown' = FALSE
  /\ UNCHANGED <<pureVars, envVars, mapVars, nCycles, renderVars, closure, requests>>

\* The 100 ms timer: initMap(), then addMarkersToMap up to its loop.
MapTimer(c) ==
  /\ pc = "idle"
  /\ phase[c] = "map"
  /\ \A b \in Cycles : b < c => phase[b] = "done"
  /\ phase' = [phase EXCEPT ![c] = "done"]
  /\ \E o \in InitMapOutcomes :
       /\ map' = o.map
       /\ IF ~leaflet \/ ~o.map
            THEN /\ closure' = [closure EXCEPT ![c].ran = "skipped"]
                 /\ view' = o.view
                 /\ UNCHANGED <<markers, routeLayers, onMap, popup, renderVars>>
            ELSE /\ closure' = [closure EXCEPT ![c].ran = "rendered"]
                 /\ onMap' = ClearedOnMap(o.map)
                 /\ popup' = IF popup \in ClearedOnMap(o.map) THEN popup ELSE NoMarker
                 /\ markers' = <<>>
                 /\ routeLayers' = <<>>
                 /\ view' = o.view
                 /\ pc' = "render"
                 /\ rGen' = c
                 /\ rDay' = 0
                 /\ bounds' = <<>>
  /\ UNCHANGED <<pureVars, envVars, nCycles, parsed, mainVars, uiVars, requests>>

\* One iteration of itinerary.forEach: the day's markers, then its route
\* request or its immediate {0, 0}.
RenderDay ==
  /\ pc = "render"
  /\ rDay < NumDays(parsed[rGen])
  /\ LET n == NumLocs(parsed[rGen], rDay)
         ms == DayMarkers(rGen, rDay, n)
     IN  /\ markers' = markers \o ms
         /\ bounds' = bounds \o [i \in 1..n |-> <<rDay, i - 1>>]
         /\ IF NeedsRoute(n)
              THEN /\ onMap' = onMap \cup Range(ms) \cup {Router(rGen, rDay, n)}
                   /\ routeLayers' = Append(routeLayers, Router(rGen, rDay, n))
                   /\ requests' = [requests EXCEPT ![rGen][rDay].state = "pending"]
                   /\ closure' = [closure EXCEPT ![rGen].placed = @ + 1]
                   /\ NoCallback
              ELSE /\ onMap' = onMap \cup Range(ms)
                   /\ UNCHANGED <<routeLayers, requests>>
                   /\ LET cl == Settled(rGen, rDay, ZeroStat)
                      IN  /\ closure' = [closure EXCEPT
                                           ![rGen] = [cl EXCEPT !.placed = @ + 1]]
                          /\ IF cl.calls > closure[rGen].calls
                               THEN OnRouteStats(rGen, cl.dayStats)
                               ELSE NoCallback
  /\ rDay' = rDay + 1
  /\ UNCHANGED <<pureVars, envVars, map, view, popup, nCycles, phase, parsed,
                 currentItinerary, uiVars, pc, rGen>>

\* After the loop: map.fitBounds(bounds) when there are bounds.
RenderFinish ==
  /\ pc = "render"
  /\ rDay = NumDays(parsed[rGen])
  /\ IF FitNeeded(bounds)
       THEN /\ view' = FitView(rGen)
            /\ closure' = [closure EXCEPT ![rGen].fitted = TRUE]
       ELSE UNCHANGED <<view, closure>>
  /\ pc' = "idle"
  /\ bounds' = <<>>
  /\ UNCHANGED <<pureVars, envVars, map, markers, routeLayers, onMap, popup, nCycles,
                 phase, parsed, mainVars, uiVars, rGen, rDay, requests>>

\* router.on("routesfound", ...) of call c, day dayIndex, fires with e.routes[0].summary = s.
RoutesFound(c, dayIndex, s) ==
  /\ pc = "idle"
  /\ requests[c][dayIndex].state \in {"pending", "found"}
  /\ requests[c][dayIndex].events < MaxEvents
  /\ requests' = [requests EXCEPT ![c][dayIndex] =
                    [state |-> "found", events |-> @.events + 1, summary |-> s]]
  /\ Settle(c, dayIndex, RouteStat(s))
  /\ UNCHANGED <<pureVars, envVars, mapVars, nCycles, phase, parsed, currentItinerary,
                 uiVars, renderVars>>

\* The request of call c, day dayIndex, ends in an error or without a route:
\* no handler is registered for that.
RouteError(c, dayIndex) ==
  /\ pc = "idle"
  /\ requests[c][dayIndex].state = "pending"
  /\ requests' = [requests EXCEPT ![c][dayIndex].state = "failed"]
  /\ UNCHANGED <<pureVars, envVars, mapVars, nCycles, phase, parsed, mainVars, uiVars,
                 renderVars, closure>>

\* !markers[dayIndex * 10 + locIndex] is false
HighlightGuard(dayIndex, locIndex) ==
  dayIndex * HighlightStride + locIndex < Len(markers)

\* markers.find((m) => m._dayIndex === dayIndex && m._locIndex === locIndex)
FindMarker(dayIndex, locIndex) ==
  LET hits == {i \in DOMAIN markers :
                 markers[i].dayIndex = dayIndex /\ markers[i].locIndex = locIndex}
  IN  IF hits = {} THEN NoMarker
      ELSE markers[CHOOSE i \in hits : \A j \in hits : i <= j]

\* highlightMarker's effect on <<popup, view>> in the current state:
\* marker.openPopup(); map.setView(marker.getLatLng(), 14, {animate: true})
HighlightResult(dayIndex, locIndex) ==
  IF HighlightGuard(dayIndex, locIndex) /\ FindMarker(dayIndex, locIndex) # NoMarker
    THEN [popup |-> FindMarker(dayIndex, locIndex),
          view |-> [target |-> FindMarker(dayIndex, locIndex), zoom |-> HighlightZoom]]
    ELSE [popup |-> popup, view |-> view]

HighlightMarker(dayIndex, locIndex) ==
  /\ pc = "idle"
  /\ popup' = HighlightResult(dayIndex, locIndex).popup
  /\ view' = HighlightResult(dayIndex, locIndex).view
  /\ UNCHANGED <<pureVars, envVars, map, markers, routeLayers, onMap, nCycles, phase,
                 parsed, mainVars, uiVars, renderVars, closure, requests>>

Next ==
  \/ \E text \in Inputs : TypeInput(text)
  \/ GeneratePlan
  \/ DismissAlert
  \/ \E c \in Cycles : SynthTimer(c)
  \/ \E c \in Cycles : MapTimer(c)
  \/ RenderDay
  \/ RenderFinish
  \/ \E c \in Cycles, d \in DayIdx, s \in Summaries : RoutesFound(c, d, s)
  \/ \E c \in Cycles, d \in DayIdx : RouteError(c, d)
  \/ \E d \in 0..MaxDays, l \in 0..MaxLocs : HighlightMarker(d, l)

Spec == Init /\ [][Next]_vars


\* ------------------------------------------------------------ vocabulary
Rendered(c) == closure[c].ran = "rendered"
DaysOf(c) == 0..(NumDays(parsed[c]) - 1)
AllRecorded(c) == DOMAIN closure[c].dayStats = DaysOf(c)
LoopDone(c) == Rendered(c) /\ closure[c].placed = NumDays(parsed[c])
ZeroStats(c) == [i \in DaysOf(c) |-> ZeroStat]
Invoked(c) == closure[c].calls' > closure[c].calls

\* The outcome of day i of call c itself: the stat of its own route result
\* when a route was found, {0, 0} otherwise.
OwnOutcome(c, i) ==
  IF requests[c][i].state = "found"
    THEN RouteStat(requests[c][i].summary)
    ELSE ZeroStat

StatsAttributed(c) ==
  /\ JsLength(closure[c].dayStats) = NumDays(parsed[c])
  /\ \A i \in DaysOf(c) :
       /\ i \in DOMAIN closure[c].dayStats
       /\ closure[c].dayStats[i] = OwnOutcome(c, i)

\* ---------------------------------------------------------------- claims

\* C1: for one addMarkersToMap call with the map available, onRouteStats is
\* invoked exactly once, and only once every day has recorded an outcome,
\* whatever the order and the number of the routesfound events.
C1_CallbackOnceAfterAllDays ==
  /\ [](\A c \in Cycles : closure[c].calls <= 1)
  /\ [](\A c \in Cycles : Rendered(c) /\ AllRecorded(c) => closure[c].calls = 1)
  /\ [][\A c \in Cycles : Invoked(c) => AllRecorded(c)']_vars

\* C2: whenever onRouteStats is invoked, the stats array has one entry per
\* day and entry i is the outcome of day i itself.
C2_StatsAttributedAtCallback ==
  [][\A c \in Cycles : Invoked(c) => StatsAttributed(c)']_vars

\* C3: when the map is unavailable, addMarkersToMap still invokes the stats
\* callback, with every day reported as {0, 0}.
C3_CallbackWhenMapUnavailable ==
  \A c \in Cycles :
    closure[c].ran = "skipped" =>
      /\ closure[c].calls = 1
      /\ closure[c].dayStats = ZeroStats(c)
      /\ ParsedItinerary(c) \in shown

\* C4: every generatePlan call with non-blank input ends with an itinerary
\* shown: once its map step has run and none of its route requests is
\* pending or failed, displayItinerary has been called for it.
C4_ItineraryShown ==
  \A c \in Cycles :
    ( /\ phase[c] = "done"
      /\ pc = "idle"
      /\ \A d \in DayIdx : requests[c][d].state \in {"none", "found"} )
    => (ParsedItinerary(c) \in shown \/ FallbackItinerary \in shown)

\* C5: once a newer render has started, no completion callback of an older
\* cycle sets currentDayStats or the displayed itinerary.
C5_NoStaleOverwrite ==
  [][(currentDayStats' # currentDayStats \/ displayed' # displayed) =>
       (currentDayStats' = rGen' /\ displayed'.from = ParsedItinerary(rGen'))]_vars

\* C6: highlightMarker(dayIndex, locIndex) opens the popup of the marker the
\* latest render placed with that tag and centres the view on it at zoom 14;
\* for any other pair it changes nothing.
C6_HighlightOpensTaggedMarker ==
  pc = "idle" =>
    \A d \in 0..MaxDays, l \in 0..MaxLocs :
      IF Marker(rGen, d, l) \in Range(markers)
        THEN HighlightResult(d, l) =
               [popup |-> Marker(rGen, d, l),
                view |-> [target |-> Marker(rGen, d, l), zoom |-> HighlightZoom]]
        ELSE HighlightResult(d, l) = [popup |-> popup, view |-> view]

\* C7: a route request that errors or returns no route is recorded as
\* {0, 0} for its day and counts toward the barrier, so the callback fires
\* once every day has settled.
C7_FailedRequestIsUnroutable ==
  \A c \in Cycles :
    /\ \A d \in DayIdx :
         requests[c][d].state = "failed" =>
           /\ d \in DOMAIN closure[c].dayStats
           /\ closure[c].dayStats[d] = ZeroStat
    /\ ( /\ LoopDone(c)
         /\ \A d \in DaysOf(c) : requests[c][d].state # "pending" )
       => closure[c].calls = 1

\* C8 (as stated): a route request of a render is issued only after the
\* markers of every day are placed and the viewport is fitted.
C8_RequestsAfterMarkersAndFit ==
  \A c \in Cycles, d \in DayIdx :
    requests[c][d].state # "none" => (LoopDone(c) /\ closure[c].fitted)

\* C8 (amended): the result of a route request of a render (found or failed)
\* is delivered only after the markers of every day are placed and the
\* viewport is fitted.
C8_ResultsAfterMarkersAndFit ==
  \A c \in Cycles, d \in DayIdx :
    requests[c][d].state \in {"found", "failed"} =>
      (LoopDone(c) /\ closure[c].fitted)

C8_Witness ==
  \E c \in Cycles :
    /\ NumDays(parsed[c]) = 2
    /\ closure[c].fitted
    /\ requests[c][0].state = "pending"
    /\ requests[c][1].state = "found"

\* C9: a day the render has processed is unroutable at once ({0, 0}, no
\* route request) exactly when routing is unavailable or the day has fewer
\* than 2 locations; every other day gets a route request and no stat
\* before its result.
C9_UnroutablePolicy ==
  \A c \in Cycles :
    Rendered(c) =>
      \A d \in DaysOf(c) :
        d < closure[c].placed =>
          IF ~routing \/ NumLocs(parsed[c], d) < 2
            THEN /\ requests[c][d].state = "none"
                 /\ Router(c, d, NumLocs(parsed[c], d)) \notin Range(routeLayers)
                 /\ d \in DOMAIN closure[c].dayStats
                 /\ closure[c].dayStats[d] = ZeroStat
            ELSE /\ requests[c][d].state # "none"
                 /\ (requests[c][d].state = "pending" =>
                       d \notin DOMAIN closure[c].dayStats)

C9_Witness ==
  \E c \in Cycles :
    /\ routing
    /\ LoopDone(c)
    /\ NumDays(parsed[c]) = 2
    /\ NumLocs(parsed[c], 0) = 1
    /\ closure[c].dayStats = (0 :> ZeroStat)
    /\ requests[c][0].state = "none"
    /\ NumLocs(parsed[c], 1) = 2
    /\ requests[c][1].state = "pending"

\* C10: the map, markers and routeLayers hold only objects of the newest
\* render, and they are empty when that render is about to create its first
\* object.
C10_OnlyNewestRenderObjects ==
  /\ \A o \in onMap \cup Range(markers) \cup Range(routeLayers) : o.gen = rGen
  /\ (pc = "render" /\ rDay = 0) =>
       (onMap = {} /\ markers = <<>> /\ routeLayers = <<>>)

C10_Witness ==
  /\ rGen = 2
  /\ Rendered(1)
  /\ \E d \in DaysOf(1) : NumLocs(parsed[1], d) = 2
  /\ routing
  /\ pc = "idle"
  /\ Len(markers) > 0
  /\ Len(routeLayers) > 0


\* =================================================== parseTravel.js
\* Text is a sequence of characters.  A digit stands for itself, "W" for the
\* character 월, "I" for 일, " " for white space, "x" for any other character,
\* and a city name is one symbol (no Catalog name contains another one).
MaxTokens == 3

Digits == {"0", "1", "2", "3", "4", "5", "6", "7", "8", "9"}

\* The Catalog: cities in the order of the data module (script.js lists the
\* same nine; cities[3] is 강릉), romanised.
Cities ==
  <<"Seoul", "Busan", "Jeju", "Gangneung", "Sokcho", "Yangyang", "Jeonju",
    "Gyeongju", "Yeosu">>

\* attractions[name]: spots and foods of a city; some cities have no entry.
AttractionCities == {"Seoul", "Gangneung", "Sokcho", "Yangyang"}
Attractions(name) ==
  CASE name = "Seoul" ->
         [spots |-> <<"Gyeongbokgung", "Namsan", "Bukchon">>,
          foods |-> <<>>]
    [] name = "Gangneung" ->
         [spots |-> <<"Gyeongpo", "Ojukheon">>,
          foods |-> <<"Chodang">>]
    [] name = "Sokcho" ->
         [spots |-> <<>>,
          foods |-> <<"Sundae", "Dakgangjeong", "Mulhoe">>]
    [] name = "Yangyang" -> [spots |-> <<>>, foods |-> <<>>]

\* attractions[currentCity.name] || { spots: [], foods: [] }
CityData(name) ==
  IF name \in AttractionCities THEN Attractions(name)
  ELSE [spots |-> <<>>, foods |-> <<>>]

\* What a visitor may type, word by word: city names and the three date
\* shapes of the pattern (7월 25일, 7/26, 2024-7-27~2024-7-29).
Vocabulary ==
  { <<"Seoul">>, <<"Gangneung">>, <<"Sokcho">>, <<"Yeosu">>,
    <<"7", "W", " ", "2", "5", "I">>,
    <<"7", "/", "2", "6">>,
    <<"2", "0", "2", "4", "-", "7", "-", "2", "7", "x",
      "2", "0", "2", "4", "-", "7", "-", "2", "9">> }

RECURSIVE Join(_)
Join(tokens) ==
  IF Len(tokens) = 0 THEN <<>>
  ELSE IF Len(tokens) = 1 THEN tokens[1]
  ELSE tokens[1] \o <<" ">> \o Join(Tail(tokens))

\* parseTravel is handed the text of the input field; any other caller may
\* hand it a value that is no string.
NonStrings == {"null", "undefined", "number"}
ParseInputs ==
  { [isString |-> TRUE, tokens |-> t, other |-> ""] :
      t \in UNION {[1..n -> Vocabulary] : n \in 0..MaxTokens} }
  \cup { [isString |-> FALSE, tokens |-> <<>>, other |-> v] :
           v \in NonStrings }

Text(input) == Join(input.tokens)

\* input.includes(city.name)
Includes(text, name) == \E i \in 1..Len(text) : text[i] = name

\* for (const city of cities) if (input.includes(city.name)) push(city)
DetectCities_InputOrder(text) ==
  SelectSeq(text, LAMBDA ch : \E k \in 1..Len(Cities) : Cities[k] = ch)
DetectCities(text) ==
  SelectSeq(Cities, LAMBDA name : Includes(text, name))

\* detectedCities = [cities[3]] when none was found
DefaultCities_Third == <<Cities[3]>>
DefaultCities == <<Cities[3 + 1]>>

\* ---- datePattern, matched as the regular expression engine matches it:
\* leftmost, alternatives in the order written, greedy with backtracking.
\*   (\d{1,2}월?\s*\d{1,2}일?) | (\d{4}-\d{1,2}-\d{1,2}) | (\d{1,2}\/\d{1,2})
\* Each operator yields the position after the match, 0 when there is none.
Is(text, i, ch) == i <= Len(text) /\ text[i] = ch
DigitsAt(text, i, n) ==
  \A k \in 0..(n - 1) : i + k <= Len(text) /\ text[i + k] \in Digits

\* a trailing \d{1,2}: two digits when there are two
Take12(text, i) ==
  IF DigitsAt(text, i, 2) THEN 2 ELSE IF DigitsAt(text, i, 1) THEN 1 ELSE 0

RECURSIVE SpacesAt(_, _)
SpacesAt(text, i) ==
  IF Is(text, i, " ") THEN 1 + SpacesAt(text, i + 1) ELSE 0

MaxOf(S) == CHOOSE x \in S : \A y \in S : y <= x

\* \s*\d{1,2}일?  from position j
DayPart(text, j) ==
  LET ok == {sp \in 0..SpacesAt(text, j) : DigitsAt(text, j + sp, 1)}
  IN  IF ok = {} THEN 0
      ELSE LET k == j + MaxOf(ok) + Take12(text, j + MaxOf(ok))
           IN  IF Is(text, k, "I") THEN k + 1 ELSE k

\* 월?\s*\d{1,2}일?  from position j
MonthPart(text, j) ==
  IF Is(text, j, "W") /\ DayPart(text, j + 1) # 0
  THEN DayPart(text, j + 1)
  ELSE DayPart(text, j)

KoreanDate(text, i) ==
  IF DigitsAt(text, i, 2) /\ MonthPart(text, i + 2) # 0
  THEN MonthPart(text, i + 2)
  ELSE IF DigitsAt(text, i, 1) THEN MonthPart(text, i + 1) ELSE 0

\* \d{1,2} sep \d{1,2}  from position j
Pair(text, j, sep) ==
  IF DigitsAt(text, j, 2) /\ Is(text, j + 2, sep) /\ Take12(text, j + 3) # 0
  THEN j + 3 + Take12(text, j + 3)
  ELSE IF DigitsAt(text, j, 1) /\ Is(text, j + 1, sep)
          /\ Take12(text, j + 2) # 0
       THEN j + 2 + Take12(text, j + 2)
       ELSE 0

IsoDate(text, i) ==
  IF DigitsAt(text, i, 4) /\ Is(text, i + 4, "-")
  THEN Pair(text, i + 5, "-") ELSE 0

SlashDate(text, i) == Pair(text, i, "/")

MatchEnd(text, i) ==
  IF KoreanDate(text, i) # 0 THEN KoreanDate(text, i)
  ELSE IF IsoDate(text, i) # 0 THEN IsoDate(text, i)
  ELSE SlashDate(text, i)

\* input.match(datePattern) || []
RECURSIVE MatchFrom(_, _)
MatchFrom(text, i) ==
  IF i > Len(text) THEN <<>>
  ELSE IF MatchEnd(text, i) = 0 THEN MatchFrom(text, i + 1)
  ELSE <<SubSeq(text, i, MatchEnd(text, i) - 1)>>
         \o MatchFrom(text, MatchEnd(text, i))

MatchDates(text) == MatchFrom(text, 1)

\* dates = ["7월 25일", ..., "7월 29일"] when fewer than 2 were matched
Jul(d) == <<"7", "W", " ", "2", d, "I">>
DefaultDates_Reversed == <<Jul("9"), Jul("8"), Jul("7"), Jul("6"), Jul("5")>>
DefaultDates == <<Jul("5"), Jul("6"), Jul("7"), Jul("8"), Jul("9")>>

Min(a, b) == IF a <= b THEN a ELSE b

\* maxDays = Math.min(dates.length, detectedCities.length > 1 ? 5 : 3)
MaxDaysOf_CapSwapped(dates, detected) ==
  Min(Len(dates), IF Len(detected) > 1 THEN 3 ELSE 5)
MaxDaysOf(dates, detected) ==
  Min(Len(dates), IF Len(detected) > 1 THEN 5 ELSE 3)

\* getRandomItems(arr, count): the first count elements of a shuffled copy.
\* Whatever the comparator answers, sort returns a permutation of the copy.
Injective(q) == \A a, b \in DOMAIN q : q[a] = q[b] => a = b
GetRandomItems_Repeating(arr, count) ==
  { [k \in 1..count |-> arr[q[k]]] : q \in [1..count -> 1..Len(arr)] }
GetRandomItems(arr, count) ==
  { [k \in 1..count |-> arr[q[k]]] :
      q \in {r \in [1..count -> 1..Len(arr)] : Injective(r)} }

\* [...spots, ...foods].sort(() => 0.5 - Math.random())
Shuffles(list) == GetRandomItems(list, Len(list))

\* A location keeps its name and type here; its time and coordinates play
\* no part in what follows.
Typed(names, type) ==
  [k \in 1..Len(names) |-> [name |-> names[k], type |-> type]]

\* numSpots = Math.min(spots.length, 2 + Math.floor(Math.random() * 2))
NumSpots(spots, r) == Min(Len(spots), 2 + r)
\* numFoods = Math.min(foods.length, 1 + Math.floor(Math.random() * 2))
NumFoods(foods, r) == Min(Len(foods), 1 + r)

\* One day of the itinerary; locations is kept by its length, the day the
\* loop built last has its spots, foods and locations in pDay.
DayRecord(i, date, city, locations) ==
  [day |-> i + 1, date |-> date, city |-> city,
   numLocations |-> Len(locations), distance |-> 0, duration |-> 0]

\* The catch block's fallbackResult: "여행 1일차", 강릉, 경포해변 and 오죽헌.
FallbackDate == <<"x", "x", " ", "1", "I", "x">>
FallbackLocations_One == Typed(<<"Gyeongpo">>, "spot")
FallbackLocations == Typed(<<"Gyeongpo", "Ojukheon">>, "spot")
FallbackResult ==
  [cities |-> <<"Gangneung">>, primaryCity |-> "Gangneung",
   itinerary |-> <<DayRecord(0, FallbackDate, "Gangneung", FallbackLocations)>>]

\* ---- parseTravel(input), one call from entry to return.
pageVars ==
  <<mapVars, uiVars, mainVars, renderVars, envVars, nCycles, phase, parsed,
    closure, requests>>

InitParse ==
  /\ leaflet = FALSE
  /\ routing = FALSE
  /\ PageIdle
  /\ StatIdle
  /\ pInput \in ParseInputs
  /\ pStage = "called"
  /\ pDetected = <<>>
  /\ pDates = <<>>
  /\ pItinerary = <<>>
  /\ pDay = NoDay
  /\ pResult = NoResult

\* catch (error) { return fallbackResult }
Caught ==
  /\ pStage' = "returned"
  /\ pResult' = FallbackResult
  /\ pDay' = [spots |-> <<>>, foods |-> <<>>, locations |-> FallbackLocations]

\* Lines 12-33: the cities and dates of the input.  includes is a method of
\* strings: on any other value the call throws inside the try block.
ParseDetect ==
  /\ pStage = "called"
  /\ IF ~pInput.isString
     THEN /\ Caught
          /\ UNCHANGED <<pDetected, pDates, pItinerary>>
     ELSE /\ pDetected' = IF DetectCities(Text(pInput)) = <<>>
                          THEN DefaultCities
                          ELSE DetectCities(Text(pInput))
          /\ pDates' = IF Len(MatchDates(Text(pInput))) < 2
                       THEN DefaultDates
                       ELSE MatchDates(Text(pInput))
          /\ pStage' = "loop"
          /\ UNCHANGED <<pItinerary, pDay, pResult>>
  /\ UNCHANGED <<pInput, pageVars, statVars>>

\* Lines 34-80: one turn of the loop, with its four random draws.
ParseDay ==
  /\ pStage = "loop"
  /\ Len(pItinerary) < MaxDaysOf(pDates, pDetected)
  /\ LET i == Len(pItinerary)
         city == pDetected[(i % Len(pDetected)) + 1]
         cityData == CityData(city)
     IN  \E r1 \in 0..1, r2 \in 0..1 :
           \E spots \in GetRandomItems(cityData.spots,
                                       NumSpots(cityData.spots, r1)),
              foods \in GetRandomItems(cityData.foods,
                                       NumFoods(cityData.foods, r2)) :
             \E locations \in Shuffles(Typed(spots, "spot")
                                         \o Typed(foods, "food")) :
               /\ pItinerary' = Append(pItinerary,
                                  DayRecord(i, pDates[i + 1], city, locations))
               /\ pDay' = [spots |-> spots, foods |-> foods,
                           locations |-> locations]
  /\ UNCHANGED <<pInput, pStage, pDetected, pDates, pResult>>
  /\ UNCHANGED <<pageVars, statVars>>

\* Lines 82-90: the result, or the throw on an empty itinerary.
ParseReturn ==
  /\ pStage = "loop"
  /\ Len(pItinerary) = MaxDaysOf(pDates, pDetected)
  /\ IF Len(pItinerary) = 0
     THEN Caught
     ELSE /\ pResult' = [cities |-> pDetected, primaryCity |-> pDetected[1],
                         itinerary |-> pItinerary]
          /\ pStage' = "returned"
          /\ UNCHANGED pDay
  /\ UNCHANGED <<pInput, pDetected, pDates, pItinerary>>
  /\ UNCHANGED <<pageVars, statVars>>

NextParse == ParseDetect \/ ParseDay \/ ParseReturn

SpecParse == InitParse /\ [][NextParse]_vars


\* ---- vocabulary of the parseTravel properties
Returned == pStage = "returned"
\* the Catalog cities named in the text, and the dates the pattern finds
NamedCities(text) == {k \in 1..Len(Cities) : Includes(text, Cities[k])}
FoundDates(text) == MatchDates(text)
DaysReturned == Len(pResult.itinerary)

\* C11: an input naming at least one Catalog city and holding at least two
\* dates yields as many days as dates were found, but at most 5 when more
\* than one city was found and at most 3 otherwise.
C11_DayCountIsCappedDateCount ==
  (Returned /\ pInput.isString
     /\ NamedCities(Text(pInput)) # {}
     /\ Len(FoundDates(Text(pInput))) >= 2)
  => LET n == Len(FoundDates(Text(pInput)))
         cap == IF Cardinality(NamedCities(Text(pInput))) > 1 THEN 5 ELSE 3
     IN  DaysReturned = IF n <= cap THEN n ELSE cap

\* Reached: two cities and four dates give four days.
C11_Witness ==
  /\ Returned /\ pInput.isString
  /\ Cardinality(NamedCities(Text(pInput))) = 2
  /\ Len(FoundDates(Text(pInput))) = 4
  /\ DaysReturned = 4

\* C12: every day of every itinerary parseTravel returns has at least one
\* location, also a day whose city has no attractions entry or empty lists.
C12_EveryDayHasALocation ==
  Returned =>
    \A k \in 1..DaysReturned : pResult.itinerary[k].numLocations >= 1

\* C13: the detected cities are in Catalog order, not in the order of the
\* input, and day i (from 0) is in city detected[i mod count]: 강릉 and 속초
\* alternate as 강릉, 속초, 강릉, ...
CatalogIndex(name) == CHOOSE k \in 1..Len(Cities) : Cities[k] = name
C13_CatalogOrderRoundRobin ==
  (Returned /\ pInput.isString /\ NamedCities(Text(pInput)) # {})
  => /\ {CatalogIndex(pResult.cities[k]) : k \in 1..Len(pResult.cities)}
          = NamedCities(Text(pInput))
     /\ \A j, k \in 1..Len(pResult.cities) :
          j < k => CatalogIndex(pResult.cities[j])
                     < CatalogIndex(pResult.cities[k])
     /\ \A i \in 0..(DaysReturned - 1) :
          pResult.itinerary[i + 1].city
            = pResult.cities[(i % Len(pResult.cities)) + 1]

\* Reached: 속초 typed before 강릉, four days 강릉, 속초, 강릉, 속초.
C13_Witness ==
  /\ Returned /\ pInput.isString
  /\ Len(pInput.tokens) = 3
  /\ pInput.tokens[1] = <<"Sokcho">>
  /\ pInput.tokens[2] = <<"Gangneung">>
  /\ DaysReturned = 4
  /\ [k \in 1..4 |-> pResult.itinerary[k].city]
       = <<"Gangneung", "Sokcho", "Gangneung", "Sokcho">>

\* C14: when fewer than two dates are found in the input (none, or exactly
\* one), what was found is dropped and day i carries the i-th of the five
\* fixed labels 7월 25일 .. 7월 29일, as many as there are days.
FixedLabels ==
  << <<"7", "W", " ", "2", "5", "I">>, <<"7", "W", " ", "2", "6", "I">>,
     <<"7", "W", " ", "2", "7", "I">>, <<"7", "W", " ", "2", "8", "I">>,
     <<"7", "W", " ", "2", "9", "I">> >>
C14_DefaultLabelsInOrder ==
  (Returned /\ pInput.isString /\ Len(FoundDates(Text(pInput))) < 2)
  => /\ DaysReturned
          = (IF Cardinality(NamedCities(Text(pInput))) > 1 THEN 5 ELSE 3)
     /\ \A k \in 1..DaysReturned :
          pResult.itinerary[k].date = FixedLabels[k]

\* Reached: exactly one date found, 7/26, and no day carries it.
C14_Witness ==
  /\ Returned /\ pInput.isString
  /\ FoundDates(Text(pInput)) = << <<"7", "/", "2", "6">> >>
  /\ DaysReturned = 3
  /\ \A k \in 1..DaysReturned :
       pResult.itinerary[k].date # <<"7", "/", "2", "6">>

\* C15: when the input names no Catalog city, the detected cities are
\* exactly [강릉] and every day is in 강릉.
C15_DefaultCityIsGangneung ==
  (Returned /\ pInput.isString /\ NamedCities(Text(pInput)) = {})
  => /\ pResult.cities = <<"Gangneung">>
     /\ \A k \in 1..DaysReturned : pResult.itinerary[k].city = "Gangneung"

\* Reached: an input of dates only, returned with its days.
C15_Witness ==
  /\ Returned /\ pInput.isString
  /\ NamedCities(Text(pInput)) = {}
  /\ Len(pInput.tokens) = 2
  /\ DaysReturned = 3
  /\ pResult.itinerary[3].city = "Gangneung"

\* The day the loop built last, and the Catalog lists of its city.
LastDay == pItinerary[Len(pItinerary)]
NamesOf(list) == {list[k] : k \in 1..Len(list)}
Distinct(list) == \A a, b \in 1..Len(list) : list[a] = list[b] => a = b
Within(n, len, low, high) ==
  /\ n >= (IF len <= low THEN len ELSE low)
  /\ n <= (IF len <= high THEN len ELSE high)

\* C16: for each day, between min(#catalog spots, 2) and min(#catalog
\* spots, 3) spots and between min(#catalog foods, 1) and min(#catalog
\* foods, 2) foods are selected, every name from the lists of the day's
\* city, no name twice among the spots and none twice among the foods.
C16_SelectionWithinCatalog ==
  Len(pItinerary) > 0 =>
    LET catalog == IF LastDay.city \in AttractionCities
                   THEN Attractions(LastDay.city)
                   ELSE [spots |-> <<>>, foods |-> <<>>]
    IN  /\ Within(Len(pDay.spots), Len(catalog.spots), 2, 3)
        /\ Within(Len(pDay.foods), Len(catalog.foods), 1, 2)
        /\ NamesOf(pDay.spots) \subseteq NamesOf(catalog.spots)
        /\ NamesOf(pDay.foods) \subseteq NamesOf(catalog.foods)
        /\ Distinct(pDay.spots)
        /\ Distinct(pDay.foods)
        /\ LastDay.numLocations = Len(pDay.spots) + Len(pDay.foods)

\* Reached: a day with all three spots of 서울, then a day with two of the
\* three foods of 속초.
C16_Witness ==
  /\ Len(pItinerary) = 2
  /\ pItinerary[1].city = "Seoul" /\ pItinerary[1].numLocations = 3
  /\ LastDay.city = "Sokcho" /\ Len(pDay.foods) = 2

\* A call failed when its catch block ran: nothing else returns with the
\* loop's itinerary empty.
Failed == Returned /\ pItinerary = <<>>

\* C17: parseTravel never raises: a call that fails inside returns the fixed
\* fallback, one day in 강릉 with the two locations 경포해변 and 오죽헌,
\* distance 0 and duration 0, the same for every failing call.
C17_FailureReturnsFixedFallback ==
  /\ pStage \in {"called", "loop", "returned"}
  /\ (pStage = "called" /\ ~pInput.isString) => ENABLED ParseDetect
  /\ Failed =>
       /\ pResult.cities = <<"Gangneung">>
       /\ pResult.primaryCity = "Gangneung"
       /\ pResult.itinerary
            = << [day |-> 1, date |-> <<"x", "x", " ", "1", "I", "x">>,
                  city |-> "Gangneung", numLocations |-> 2,
                  distance |-> 0, duration |-> 0] >>
       /\ pDay.locations
            = << [name |-> "Gyeongpo", type |-> "spot"],
                 [name |-> "Ojukheon", type |-> "spot"] >>

\* Reached: a call with a number for input has returned the fallback.
C17_Witness ==
  /\ Failed
  /\ pInput.other = "number"
  /\ DaysReturned = 1

\* =================================================== mapControl, continued
\* The route overlays the newest render c has on routeLayers for its day d.
RoutersOf(c, d) ==
  {i \in 1..Len(routeLayers) :
     routeLayers[i].gen = c /\ routeLayers[i].dayIndex = d}
Palette(d) ==
  CASE d % 5 = 0 -> "red" [] d % 5 = 1 -> "blue" [] d % 5 = 2 -> "green"
    [] d % 5 = 3 -> "orange" [] d % 5 = 4 -> "violet"

\* C18: with routing available, a render issues for each of its days with
\* two or more locations exactly one route request, its waypoints the day's
\* locations in the order of day.locations, its overlay in the colour
\* palette[dayIndex mod 5] of red, blue, green, orange, violet.
C18_OneOrderedColouredRequestPerDay ==
  \A c \in Cycles :
    (Rendered(c) /\ rGen = c /\ leaflet /\ routing) =>
      \A d \in DaysOf(c) :
        (d < closure[c].placed /\ NumLocs(parsed[c], d) >= 2) =>
          /\ Cardinality(RoutersOf(c, d)) = 1
          /\ requests[c][d].state # "none"
          /\ \A i \in RoutersOf(c, d) :
               /\ routeLayers[i].waypoints
                    = [k \in 1..NumLocs(parsed[c], d) |-> k - 1]
               /\ routeLayers[i].color = Palette(d)

\* Reached: both days of a render have their request, the second in blue.
C18_Witness ==
  \E c \in Cycles :
    /\ LoopDone(c) /\ rGen = c /\ routing
    /\ NumDays(parsed[c]) = 2
    /\ NumLocs(parsed[c], 0) = 2 /\ NumLocs(parsed[c], 1) = 2
    /\ Len(routeLayers) = 2
    /\ routeLayers[2].color = "blue"
    /\ routeLayers[2].waypoints = <<0, 1>>

\* C19: while a route request of a render is still unresolved (no route
\* found, no failure reported), the completion callback of that render has
\* not been invoked; a request that never resolves keeps it so for ever,
\* however the other days resolve.
C19_NoCallbackWhileRequestUnresolved ==
  \A c \in Cycles :
    (\E d \in DaysOf(c) : requests[c][d].state = "pending")
      => closure[c].calls = 0

\* ---- the routesfound computation on its own: a summary with whole metres
\* and seconds, and the stat the handler derives from it.
MaxMetres == 400
MaxSeconds == 200

InitStat ==
  /\ leaflet = FALSE
  /\ routing = FALSE
  /\ PageIdle
  /\ ParseIdle
  /\ sample \in [totalDistance : 0..MaxMetres, totalTime : 0..MaxSeconds]
  /\ sampleStat = <<>>

\* distance = Math.round(totalDistance / 100) / 10,
\* duration = Math.round(totalTime / 60)
ComputeStat ==
  /\ sampleStat = <<>>
  /\ sampleStat' = <<RouteStat(sample)>>
  /\ UNCHANGED <<sample, pageVars, parseVars>>

NextStat == ComputeStat

SpecStat == InitStat /\ [][NextStat]_vars

\* C20: for m metres and s seconds the recorded distance, counted in tenths
\* of a kilometre, is m / 100 rounded to the nearest integer and the
\* duration is s / 60 rounded to the nearest integer, a half rounded up.
C20_StatIsRoundedHalfUp ==
  sampleStat # <<>> =>
    /\ 100 * sampleStat[1].distance - 50 <= sample.totalDistance
    /\ sample.totalDistance < 100 * sampleStat[1].distance + 50
    /\ 60 * sampleStat[1].duration - 30 <= sample.totalTime
    /\ sample.totalTime < 60 * sampleStat[1].duration + 30

\* Reached: 250 m and 90 s, both halves, give 0.3 km and 2 minutes.
C20_Witness ==
  /\ sample = [totalDistance |-> 250, totalTime |-> 90]
  /\ sampleStat = <<[distance |-> 3, duration |-> 2]>>

\* ---- the page under fairness: a timer that is due fires, and the loop of
\* addMarkersToMap, being synchronous code, runs to its end.
Fairness ==
  /\ \A c \in Cycles : WF_vars(SynthTimer(c)) /\ WF_vars(MapTimer(c))
  /\ WF_vars(RenderDay)
  /\ WF_vars(RenderFinish)

SpecLive == Spec /\ Fairness

\* Every route request render c has issued fires its route-found event.
EveryRequestFires(c) ==
  \A d \in DayIdx :
    [](requests[c][d].state = "pending" => <>(requests[c][d].state = "found"))
NoRequestNeeded(c) ==
  LoopDone(c) /\ \A d \in DaysOf(c) : requests[c][d].state = "none"

\* C21: with the map available, a render whose issued route requests all
\* fire their route-found event has its completion callback invoked in the
\* end; a render none of whose days needs a request has it invoked before
\* addMarkersToMap returns.
C21_CallbackEventuallyInvoked ==
  /\ \A c \in Cycles :
       EveryRequestFires(c) => [](Rendered(c) => <>(closure[c].calls > 0))
  /\ [](\A c \in Cycles : NoRequestNeeded(c) => closure[c].calls > 0)

\* Reached: both route requests of a render fired and its callback ran.
C21_Witness ==
  \E c \in Cycles :
    /\ LoopDone(c) /\ pc = "idle"
    /\ NumDays(parsed[c]) = 2
    /\ \A d \in DaysOf(c) :
         requests[c][d].state = "found" /\ requests[c][d].events = 1
    /\ closure[c].calls = 1

\* A step in which a route request of invocation a completes or fails.
Completion(a) ==
  \E d \in DayIdx :
    /\ requests[a][d].state # "none"
    /\ requests'[a][d] # requests[a][d]

\* C22: the settled counter and the stats array belong to one
\* addMarkersToMap invocation: a route completion of invocation a changes
\* neither of another invocation b and does not invoke b's callback, and
\* the stats b hands to its callback are outcomes of b's own days.
C22_BarrierStateIsPerInvocation ==
  /\ [][\A a, b \in Cycles :
          (a # b /\ Completion(a)) =>
            /\ closure'[b].routingCount = closure[b].routingCount
            /\ closure'[b].dayStats = closure[b].dayStats
            /\ closure'[b].calls = closure[b].calls]_vars
  /\ [][\A b \in Cycles : Invoked(b) => currentDayStats' = b]_vars
  /\ [](\A b \in Cycles :
          \A d \in DOMAIN closure[b].dayStats :
            closure[b].dayStats[d] = OwnOutcome(b, d))

\* Reached: two renders with completions of both, the earlier one's callback
\* invoked, the later one still waiting for its second day, their first days
\* with different summaries.
C22_Witness ==
  \E a, b \in Cycles :
    /\ a < b /\ LoopDone(a) /\ LoopDone(b) /\ pc = "idle"
    /\ \A d \in DaysOf(a) : requests[a][d].state = "found"
    /\ closure[a].calls = 1
    /\ NumDays(parsed[b]) = 2
    /\ requests[b][0].state = "found" /\ requests[b][1].state = "pending"
    /\ requests[a][0].summary # requests[b][0].summary
    /\ closure[b].routingCount = 1 /\ closure[b].calls = 0

\* Text that is empty or made of white space only.
WhiteOnly(text) == \A i \in 1..Len(text) : text[i] = " "
\* The step of a generatePlan call that stops at the blank check.
BlankCall == pc = "idle" /\ pc' = "alert"

\* C23: generatePlan with an empty or white-space-only input changes
\* nothing: no synthesis is started, currentItinerary and currentDayStats
\* keep their values, the button and the loading indicator are untouched,
\* and no marker, overlay or route request is created.
C23_BlankInputChangesNothing ==
  /\ [][BlankCall =>
          /\ WhiteOnly(travelInput)
          /\ UNCHANGED <<nCycles, phase, parsed, currentItinerary,
                         currentDayStats, displayed, shown, btnDisabled,
                         loadingShown, map, markers, routeLayers, onMap,
                         view, popup, closure, requests>>]_vars
  /\ [][WhiteOnly(travelInput) => nCycles' = nCycles]_vars

\* Reached: a call with a single space while an earlier plan is still being
\* generated; the button stays disabled and the loading indicator shown.
C23_Witness ==
  /\ pc = "alert"
  /\ travelInput = <<" ">>
  /\ nCycles = 1 /\ phase[1] = "synth"
  /\ btnDisabled /\ loadingShown

====
